---------------------------- MODULE Spec2Model ----------------------------
(***************************************************************************)
(* A model of pysar/save_hdfeos5.py: the translation of the attributes of  *)
(* a time-series file into UNAVCO archive metadata, the synthesis of the   *)
(* HDF-EOS5 file name, and the writing of the container, as run by main.   *)
(*                                                                         *)
(* Text is modelled as a sequence of one-character strings, so that        *)
(* prefixes, suffixes, padding, parsing and formatting are computed.       *)
(* Attribute keys are modelled as the sequence of their dot-separated      *)
(* segments ('hdfEos5.frame' is <<"hdfEos5", "frame">>).                   *)
(* Python values are tagged records: [str |-> text], [int |-> n],          *)
(* [flt |-> n] (n counts in units of 1/FloatScale) and [none |-> TRUE].    *)
(***************************************************************************)
EXTENDS Integers, Sequences, FiniteSets, TLC

(***************************************************************************)
(* Text helpers (Python str methods).                                      *)
(***************************************************************************)
UpperChars ==
  <<"A","B","C","D","E","F","G","H","I","J","K","L","M",
    "N","O","P","Q","R","S","T","U","V","W","X","Y","Z">>

LowerChars ==
  <<"a","b","c","d","e","f","g","h","i","j","k","l","m",
    "n","o","p","q","r","s","t","u","v","w","x","y","z">>

DigitChars ==
  <<"0","1","2","3","4","5","6","7","8","9">>

\* str.lower() on one character
LowerChar(c) ==
  IF \E i \in 1..Len(UpperChars) : UpperChars[i] = c
  THEN LowerChars[CHOOSE i \in 1..Len(UpperChars) : UpperChars[i] = c]
  ELSE c

\* str.upper() on one character
UpperChar(c) ==
  IF \E i \in 1..Len(LowerChars) : LowerChars[i] = c
  THEN UpperChars[CHOOSE i \in 1..Len(LowerChars) : LowerChars[i] = c]
  ELSE c

\* str.lower()
Lower(s) ==
  [i \in 1..Len(s) |-> LowerChar(s[i])]

\* str.startswith(p)
StartsWith(s, p) ==
  /\ Len(s) >= Len(p)
  /\ SubSeq(s, 1, Len(p)) = p

\* str.startswith((p1, p2, ...))
StartsWithAny(s, ps) ==
  \E p \in ps : StartsWith(s, p)

\* str.endswith(p)
EndsWith(s, p) ==
  /\ Len(s) >= Len(p)
  /\ SubSeq(s, Len(s) - Len(p) + 1, Len(s)) = p

(***************************************************************************)
(* Python values and dictionaries.                                         *)
(***************************************************************************)
VNone ==
  [none |-> TRUE]

VStr(s) ==
  [str |-> s]

VInt(n) ==
  [int |-> n]

VFlt(n) ==
  [flt |-> n]

IsNone(v) ==
  DOMAIN v = {"none"}

IsStr(v) ==
  DOMAIN v = {"str"}

IsInt(v) ==
  DOMAIN v = {"int"}

IsFlt(v) ==
  DOMAIN v = {"flt"}

\* a key without a prefix marker
K(name) ==
  <<name>>

EmptyDict ==
  [k \in {} |-> VNone]

\* key in d.keys()
Has(d, k) ==
  k \in DOMAIN d

\* d[k] = v
Put(d, k, v) ==
  [x \in (DOMAIN d) \cup {k} |-> IF x = k THEN v ELSE d[x]]

\* d.update(e)
Update(d, e) ==
  [x \in (DOMAIN d) \cup (DOMAIN e) |-> IF x \in DOMAIN e THEN e[x] ELSE d[x]]

(***************************************************************************)
(* get_mission_name                                                        *)
(***************************************************************************)
MissionOfValue_RsSuffix2(value) ==
  IF StartsWith(value, <<"e","r","s">>) THEN VStr(<<"E","R","S">>)
  ELSE IF StartsWithAny(value, {<<"e","n","v">>, <<"a","s","a","r">>})
  THEN VStr(<<"E","N","V">>)
  ELSE IF StartsWithAny(value, {<<"s","1">>, <<"s","e","n">>})
  THEN VStr(<<"S","1">>)
  ELSE IF StartsWithAny(value, {<<"r","s">>, <<"r","s","a","t">>,
                                <<"r","a","d","a","r","s","a","t">>})
  THEN (IF EndsWith(value, <<"2">>)
        THEN VStr(<<"R","S","2">>)
        ELSE VStr(<<"R","S","1">>))
  ELSE IF StartsWithAny(value, {<<"c","s","k">>, <<"c","o","s">>})
  THEN VStr(<<"C","S","K">>)
  ELSE IF StartsWithAny(value, {<<"t","s","x">>, <<"t","d","x">>,
                                <<"t","e","r","r","a">>,
                                <<"t","a","n","d","e","m">>})
  THEN VStr(<<"T","S","X">>)
  ELSE IF StartsWith(value, <<"j","e","r","s">>) THEN VStr(<<"J","E","R","S">>)
  ELSE IF StartsWithAny(value, {<<"a","l","o","s">>,
                                <<"p","a","l","s","a","r">>})
  THEN (IF EndsWith(value, <<"2">>)
        THEN VStr(<<"A","L","O","S","2">>)
        ELSE VStr(<<"A","L","O","S">>))
  ELSE VNone

\* lines 88-116: the prefix rules, on the lower-cased value
MissionOfValue(value) ==
  IF StartsWith(value, <<"e","r","s">>) THEN VStr(<<"E","R","S">>)
  ELSE IF StartsWithAny(value, {<<"e","n","v">>, <<"a","s","a","r">>})
  THEN VStr(<<"E","N","V">>)
  ELSE IF StartsWithAny(value, {<<"s","1">>, <<"s","e","n">>})
  THEN VStr(<<"S","1">>)
  ELSE IF StartsWithAny(value, {<<"r","s">>, <<"r","s","a","t">>,
                                <<"r","a","d","a","r","s","a","t">>})
  THEN (IF EndsWith(value, <<"1">>)
        THEN VStr(<<"R","S">> \o <<"1">>)
        ELSE VStr(<<"R","S">> \o <<"2">>))
  ELSE IF StartsWithAny(value, {<<"c","s","k">>, <<"c","o","s">>})
  THEN VStr(<<"C","S","K">>)
  ELSE IF StartsWithAny(value, {<<"t","s","x">>, <<"t","d","x">>,
                                <<"t","e","r","r","a">>,
                                <<"t","a","n","d","e","m">>})
  THEN VStr(<<"T","S","X">>)
  ELSE IF StartsWith(value, <<"j","e","r","s">>) THEN VStr(<<"J","E","R","S">>)
  ELSE IF StartsWithAny(value, {<<"a","l","o","s">>,
                                <<"p","a","l","s","a","r">>})
  THEN (IF EndsWith(value, <<"2">>)
        THEN VStr(<<"A","L","O","S","2">>)
        ELSE VStr(<<"A","L","O","S">>))
  ELSE VNone

\* lines 72-116: the result is VNone or the canonical code; no statement of
\* the function raises on a dictionary of text values
get_mission_name(meta_dict) ==
  IF Has(meta_dict, K("mission"))
  THEN MissionOfValue(Lower(meta_dict[K("mission")].str))
  ELSE IF Has(meta_dict, K("PLATFORM"))
  THEN MissionOfValue(Lower(meta_dict[K("PLATFORM")].str))
  ELSE VNone

(***************************************************************************)
(* Numbers: int(), float(), str(), round() and the %d formats.  A float is *)
(* held exactly, as a count of units of 10^-FloatDigits; the source text   *)
(* of every float of the model has at most FloatDigits decimals, so sums   *)
(* and products with integers are exact and the binary representation      *)
(* error of the machine float is not modelled.                             *)
(***************************************************************************)
FloatDigits == 4

RECURSIVE Pow10(_)
Pow10(n) ==
  IF n = 0 THEN 1 ELSE 10 * Pow10(n - 1)

FloatScale ==
  Pow10(FloatDigits)

Abs(n) ==
  IF n < 0 THEN -n ELSE n

IsDigit(c) ==
  \E i \in 1..10 : DigitChars[i] = c

DigitVal(c) ==
  (CHOOSE i \in 1..10 : DigitChars[i] = c) - 1

AllDigits(s) ==
  \A i \in 1..Len(s) : IsDigit(s[i])

RECURSIVE DigitsVal(_)
DigitsVal(s) ==
  IF s = <<>> THEN 0
  ELSE 10 * DigitsVal(SubSeq(s, 1, Len(s) - 1)) + DigitVal(s[Len(s)])

\* str.strip() of blanks, as int() and float() do before they parse
RECURSIVE Strip(_)
Strip(s) ==
  IF s # <<>> /\ s[1] = " " THEN Strip(Tail(s))
  ELSE IF s # <<>> /\ s[Len(s)] = " " THEN Strip(SubSeq(s, 1, Len(s) - 1))
  ELSE s

HasSign(s) ==
  s # <<>> /\ s[1] \in {"+", "-"}

Unsigned(s) ==
  IF HasSign(s) THEN Tail(s) ELSE s

SignOf(s) ==
  IF s # <<>> /\ s[1] = "-" THEN -1 ELSE 1

\* int(text) returns: an optional sign and one or more digits
IntTextOk(s) ==
  LET u == Unsigned(Strip(s))
  IN  u # <<>> /\ AllDigits(u)

IntTextVal(s) ==
  SignOf(Strip(s)) * DigitsVal(Unsigned(Strip(s)))

\* int(v) returns (True) or raises (False: ValueError on text, TypeError on None)
IntOk(v) ==
  \/ IsInt(v)
  \/ IsStr(v) /\ IntTextOk(v.str)

IntVal(v) ==
  IF IsInt(v) THEN v.int ELSE IntTextVal(v.str)

\* the position of the decimal point of a text, 0 if it has none
DotPos(s) ==
  IF \E i \in 1..Len(s) : s[i] = "."
  THEN CHOOSE i \in 1..Len(s) : s[i] = "." /\ \A j \in 1..(i - 1) : s[j] # "."
  ELSE 0

IntPart(u) ==
  IF DotPos(u) = 0 THEN u ELSE SubSeq(u, 1, DotPos(u) - 1)

FracPart(u) ==
  IF DotPos(u) = 0 THEN <<>> ELSE SubSeq(u, DotPos(u) + 1, Len(u))

\* float(text) returns: an optional sign, digits, an optional point, digits,
\* with a digit somewhere (exponents, inf and nan are not in the model)
FloatTextOk(s) ==
  LET u == Unsigned(Strip(s))
  IN  /\ AllDigits(IntPart(u))
      /\ AllDigits(FracPart(u))
      /\ Len(IntPart(u)) + Len(FracPart(u)) >= 1
      /\ Len(FracPart(u)) <= FloatDigits

FloatTextVal(s) ==
  LET u == Unsigned(Strip(s))
  IN  SignOf(Strip(s)) *
        (DigitsVal(IntPart(u)) * FloatScale
           + DigitsVal(FracPart(u)) * Pow10(FloatDigits - Len(FracPart(u))))

FloatOk(v) ==
  \/ IsFlt(v)
  \/ IsInt(v)
  \/ IsStr(v) /\ FloatTextOk(v.str)

FloatVal(v) ==
  IF IsFlt(v) THEN v.flt
  ELSE IF IsInt(v) THEN v.int * FloatScale
  ELSE FloatTextVal(v.str)

\* the decimal digits of n >= 0
RECURSIVE NatText(_)
NatText(n) ==
  IF n < 10 THEN <<DigitChars[n + 1]>>
  ELSE NatText(n \div 10) \o <<DigitChars[(n % 10) + 1]>>

\* str(n) of an int
IntText(n) ==
  IF n < 0 THEN <<"-">> \o NatText(-n) ELSE NatText(n)

RECURSIVE Zeros(_)
Zeros(n) ==
  IF n <= 0 THEN <<>> ELSE <<"0">> \o Zeros(n - 1)

\* '%0<w>d' % n
PadInt(w, n) ==
  IF n < 0
  THEN <<"-">> \o Zeros(w - 1 - Len(NatText(-n))) \o NatText(-n)
  ELSE Zeros(w - Len(NatText(n))) \o NatText(n)

RECURSIVE StripZerosRight(_)
StripZerosRight(s) ==
  IF s # <<>> /\ s[Len(s)] = "0"
  THEN StripZerosRight(SubSeq(s, 1, Len(s) - 1))
  ELSE s

\* str(x) of a float: the shortest decimal that reads back as x, with at least
\* one decimal (the exponent form of |x| < 1e-4 and |x| >= 1e16 is not reached)
FloatText(x) ==
  LET a == Abs(x)
      frac == StripZerosRight(PadInt(FloatDigits, a % FloatScale))
  IN  (IF x < 0 THEN <<"-">> ELSE <<>>)
        \o NatText(a \div FloatScale) \o <<".">>
        \o (IF frac = <<>> THEN <<"0">> ELSE frac)

\* round(num / den) of Python 3 for num >= 0, den > 0: ties go to the even
RoundHalfEven(num, den) ==
  LET q == num \div den
      r == num % den
  IN  IF 2 * r < den THEN q
      ELSE IF 2 * r > den THEN q + 1
      ELSE IF q % 2 = 0 THEN q ELSE q + 1

\* round(x * 1e3) of a float x; FloatScale is a multiple of 1000
RoundMilli(x) ==
  IF x < 0
  THEN -RoundHalfEven(-x, FloatScale \div 1000)
  ELSE RoundHalfEven(x, FloatScale \div 1000)

\* truth value of a Python value
Truthy(v) ==
  IF IsNone(v) THEN FALSE
  ELSE IF IsInt(v) THEN v.int # 0
  ELSE IF IsFlt(v) THEN v.flt # 0
  ELSE v.str # <<>>

\* str(v)
TextOf(v) ==
  IF IsStr(v) THEN v.str
  ELSE IF IsInt(v) THEN IntText(v.int)
  ELSE IF IsFlt(v) THEN FloatText(v.flt)
  ELSE <<"N","o","n","e">>

(***************************************************************************)
(* Dates: datetime.strptime, isoformat and strftime.  A date of the date   *)
(* list is eight characters (YYYYMMDD); the formats are modelled on texts  *)
(* of the exact width.                                                     *)
(***************************************************************************)
IsLeap(y) ==
  (y % 4 = 0 /\ y % 100 # 0) \/ y % 400 = 0

DaysInMonth(y, m) ==
  IF m = 2 THEN (IF IsLeap(y) THEN 29 ELSE 28)
  ELSE IF m \in {4, 6, 9, 11} THEN 30
  ELSE 31

ValidDate(y, m, d) ==
  /\ y >= 1
  /\ m \in 1..12
  /\ d \in 1..DaysInMonth(y, m)

\* strptime(s, '%Y%m%d') returns
CompactDateOk(s) ==
  /\ Len(s) = 8
  /\ AllDigits(s)
  /\ ValidDate(DigitsVal(SubSeq(s, 1, 4)), DigitsVal(SubSeq(s, 5, 6)),
               DigitsVal(SubSeq(s, 7, 8)))

CompactDateVal(s) ==
  [y |-> DigitsVal(SubSeq(s, 1, 4)), m |-> DigitsVal(SubSeq(s, 5, 6)),
   d |-> DigitsVal(SubSeq(s, 7, 8))]

\* date.isoformat()[0:10]
IsoText(t) ==
  PadInt(4, t.y) \o <<"-">> \o PadInt(2, t.m) \o <<"-">> \o PadInt(2, t.d)

\* strptime(s, '%Y-%m-%d') returns
IsoDateOk(s) ==
  /\ Len(s) = 10
  /\ s[5] = "-" /\ s[8] = "-"
  /\ AllDigits(SubSeq(s, 1, 4) \o SubSeq(s, 6, 7) \o SubSeq(s, 9, 10))
  /\ ValidDate(DigitsVal(SubSeq(s, 1, 4)), DigitsVal(SubSeq(s, 6, 7)),
               DigitsVal(SubSeq(s, 9, 10)))

IsoDateVal(s) ==
  [y |-> DigitsVal(SubSeq(s, 1, 4)), m |-> DigitsVal(SubSeq(s, 6, 7)),
   d |-> DigitsVal(SubSeq(s, 9, 10))]

\* date.strftime('%Y%m%d')
CompactText(t) ==
  PadInt(4, t.y) \o PadInt(2, t.m) \o PadInt(2, t.d)

(***************************************************************************)
(* metadata_pysar2unavco.  The source attributes are an ordered mapping:   *)
(* a sequence of [key, val] entries with distinct keys, in the order in    *)
(* which the mapping iterates.                                             *)
(***************************************************************************)
\* 'unavco.' in key: a segment of that name that a dot follows (the model's
\* keys have no segment that merely ends in the marker's name)
HasMarker(key, m) ==
  \E i \in 1..(Len(key) - 1) : key[i] = m

FirstMarker(key, m) ==
  CHOOSE i \in 1..(Len(key) - 1) :
    key[i] = m /\ \A j \in 1..(i - 1) : key[j] # m

\* key.split('unavco.')[1]: the text between the first marker and the next
AfterMarker(key, m) ==
  LET rest == SubSeq(key, FirstMarker(key, m) + 1, Len(key))
  IN  IF HasMarker(rest, m)
      THEN SubSeq(rest, 1, FirstMarker(rest, m) - 1) \o <<"">>
      ELSE rest

\* lines 123-127: the body of the loop, for one key
AliasEntry(d, key, val) ==
  LET d1 == Put(d, key, val)
      d2 == IF HasMarker(key, "unavco")
            THEN Put(d1, AfterMarker(key, "unavco"), val) ELSE d1
  IN  IF HasMarker(key, "hdfEos5")
      THEN Put(d2, AfterMarker(key, "hdfEos5"), val) ELSE d2

\* lines 121-127: the loop over the keys from the i-th on
RECURSIVE AliasFrom(_, _, _)
AliasFrom(attrs, i, d) ==
  IF i > Len(attrs) THEN d
  ELSE AliasFrom(attrs, i + 1, AliasEntry(d, attrs[i].key, attrs[i].val))

AliasPass(attrs) ==
  AliasFrom(attrs, 1, EmptyDict)

\* dict(mapping)
DictOf(attrs) ==
  [k \in {attrs[i].key : i \in 1..Len(attrs)} |->
     attrs[CHOOSE i \in 1..Len(attrs) : attrs[i].key = k].val]

\* sep.join(texts)
RECURSIVE Join(_, _)
Join(texts, sep) ==
  IF texts = <<>> THEN <<>>
  ELSE IF Len(texts) = 1 THEN texts[1]
  ELSE texts[1] \o sep \o Join(Tail(texts), sep)

\* "POLYGON((" + ",".join([lon+' '+lat for lon, lat in zip(lons, lats)]) + "))"
Polygon(lons, lats) ==
  <<"P","O","L","Y","G","O","N","(","(">>
    \o Join([i \in 1..Len(lons) |-> lons[i] \o <<" ">> \o lats[i]], <<",">>)
    \o <<")",")">>

CornerKeys ==
  <<"LON_REF1", "LON_REF3", "LON_REF4", "LON_REF2",
    "LAT_REF1", "LAT_REF3", "LAT_REF4", "LAT_REF2">>

SceneFootprint_RingOrder(d) ==
  Polygon(<<d[K("LON_REF1")].str, d[K("LON_REF2")].str, d[K("LON_REF4")].str,
            d[K("LON_REF3")].str, d[K("LON_REF1")].str>>,
          <<d[K("LAT_REF1")].str, d[K("LAT_REF2")].str, d[K("LAT_REF4")].str,
            d[K("LAT_REF3")].str, d[K("LAT_REF1")].str>>)

\* lines 165-178
SceneFootprint(d) ==
  Polygon(<<d[K("LON_REF1")].str, d[K("LON_REF3")].str, d[K("LON_REF4")].str,
            d[K("LON_REF2")].str, d[K("LON_REF1")].str>>,
          <<d[K("LAT_REF1")].str, d[K("LAT_REF3")].str, d[K("LAT_REF4")].str,
            d[K("LAT_REF2")].str, d[K("LAT_REF1")].str>>)

\* lines 237-244
DataFootprint(d) ==
  LET lon0 == FloatVal(d[K("X_FIRST")])
      lat0 == FloatVal(d[K("Y_FIRST")])
      lon1 == lon0 + FloatVal(d[K("X_STEP")]) * IntVal(d[K("WIDTH")])
      lat1 == lat0 + FloatVal(d[K("Y_STEP")]) * IntVal(d[K("LENGTH")])
  IN  Polygon(<<FloatText(lon0), FloatText(lon1), FloatText(lon1),
                FloatText(lon0), FloatText(lon0)>>,
              <<FloatText(lat0), FloatText(lat0), FloatText(lat1),
                FloatText(lat1), FloatText(lat0)>>)

\* lines 237-240: the exception of the first statement that raises, if any
GeocodeError(d) ==
  IF ~FloatOk(d[K("X_FIRST")]) THEN "ValueError"
  ELSE IF ~Has(d, K("Y_FIRST")) THEN "KeyError"
  ELSE IF ~FloatOk(d[K("Y_FIRST")]) THEN "ValueError"
  ELSE IF ~Has(d, K("X_STEP")) THEN "KeyError"
  ELSE IF ~FloatOk(d[K("X_STEP")]) THEN "ValueError"
  ELSE IF ~Has(d, K("WIDTH")) THEN "KeyError"
  ELSE IF ~IntOk(d[K("WIDTH")]) THEN "ValueError"
  ELSE IF ~Has(d, K("Y_STEP")) THEN "KeyError"
  ELSE IF ~FloatOk(d[K("Y_STEP")]) THEN "ValueError"
  ELSE IF ~Has(d, K("LENGTH")) THEN "KeyError"
  ELSE IF ~IntOk(d[K("LENGTH")]) THEN "ValueError"
  ELSE "none"

\* lines 186-191: int() of the frame is not inside a try
FrameError(d) ==
  IF Has(d, K("frame"))
  THEN (IF IntOk(d[K("frame")]) THEN "none" ELSE "ValueError")
  ELSE IF Has(d, K("first_frame"))
  THEN (IF IntOk(d[K("first_frame")]) THEN "none" ELSE "ValueError")
  ELSE "none"

\* lines 142 and 150: the two required attributes that are read first
RequiredError(d) ==
  IF ~Has(d, K("beam_mode")) THEN "KeyError"
  ELSE IF ~Has(d, K("relative_orbit")) THEN "KeyError"
  ELSE IF ~IntOk(d[K("relative_orbit")]) THEN "ValueError"
  ELSE "none"

\* lines 136-246: the exception that ends the translation of the aliased
\* attributes d, "none" when it returns
TranslateError(d, dates) ==
  IF RequiredError(d) # "none" THEN RequiredError(d)
  ELSE IF dates = <<>> THEN "IndexError"
  ELSE IF ~CompactDateOk(dates[1]) \/ ~CompactDateOk(dates[Len(dates)])
  THEN "ValueError"
  ELSE IF \E i \in 1..Len(CornerKeys) : ~Has(d, K(CornerKeys[i]))
  THEN "KeyError"
  ELSE IF FrameError(d) # "none" THEN FrameError(d)
  ELSE IF ~Has(d, K("ANTENNA_SIDE")) THEN "KeyError"
  ELSE IF Has(d, K("X_FIRST")) THEN GeocodeError(d)
  ELSE "none"

\* try: out[key] = d[key] / except: pass
CopyIfPresent(out, d, key, name) ==
  IF Has(d, K(name)) THEN Put(out, K(key), d[K(name)]) ELSE out

\* try: out[key] = d[key] / except: out[key] = default
CopyOrDefault(out, d, key, default) ==
  IF Has(d, K(key)) THEN Put(out, K(key), d[K(key)])
  ELSE Put(out, K(key), default)

\* try: out[key] = float(d[name]) / except: pass
FloatIfOk(out, d, key, name) ==
  IF Has(d, K(name)) /\ FloatOk(d[K(name)])
  THEN Put(out, K(key), VFlt(FloatVal(d[K(name)])))
  ELSE out

\* lines 143-146
BeamSwath(d) ==
  IF Has(d, K("beam_swath")) /\ IntOk(d[K("beam_swath")])
  THEN VInt(IntVal(d[K("beam_swath")]))
  ELSE VInt(0)

\* lines 186-191
Frame(d) ==
  IF Has(d, K("frame")) THEN VInt(IntVal(d[K("frame")]))
  ELSE IF Has(d, K("first_frame")) THEN VInt(IntVal(d[K("first_frame")]))
  ELSE VInt(0)

\* lines 211-214
FlightDirection(out, d) ==
  IF Has(d, K("ORBIT_DIRECTION")) /\ d[K("ORBIT_DIRECTION")].str # <<>>
  THEN Put(out, K("flight_direction"),
           VStr(<<UpperChar(d[K("ORBIT_DIRECTION")].str[1])>>))
  ELSE out

\* lines 215-218
LookDirection(d) ==
  IF d[K("ANTENNA_SIDE")] = VStr(<<"-","1">>)
  THEN VStr(<<"R">>) ELSE VStr(<<"L">>)

\* lines 129-248: the dictionary returned, when no statement raises
TranslateDict(d, dates, today) ==
  LET m1  == Put(EmptyDict, K("mission"), get_mission_name(d))
      m2  == Put(m1, K("beam_mode"), d[K("beam_mode")])
      m3  == Put(m2, K("beam_swath"), BeamSwath(d))
      m4  == Put(m3, K("relative_orbit"), VInt(IntVal(d[K("relative_orbit")])))
      m5  == CopyOrDefault(m4, d, "processing_type",
               VStr(<<"L","O","S","_","T","I","M","E","S","E","R","I","E","S">>))
      m6  == Put(m5, K("first_date"), VStr(IsoText(CompactDateVal(dates[1]))))
      m7  == Put(m6, K("last_date"),
                 VStr(IsoText(CompactDateVal(dates[Len(dates)]))))
      m8  == Put(m7, K("scene_footprint"), VStr(SceneFootprint(d)))
      m9  == Put(m8, K("history"), VStr(IsoText(today)))
      m10 == Put(m9, K("frame"), Frame(d))
      m11 == CopyIfPresent(m10, d, "atmos_correct_method", "atmos_correct_method")
      m12 == CopyOrDefault(m11, d, "post_processing_method",
               VStr(<<"P","Y","S","A","R">>))
      m13 == CopyIfPresent(m12, d, "processing_dem", "processing_dem")
      m14 == CopyIfPresent(m13, d, "unwrap_method", "unwrap_method")
      m15 == FlightDirection(m14, d)
      m16 == Put(m15, K("look_direction"), LookDirection(d))
      m17 == CopyIfPresent(m16, d, "polarization", "POLARIZATION")
      m18 == FloatIfOk(m17, d, "prf", "PRF")
      m19 == FloatIfOk(m18, d, "wavelength", "WAVELENGTH")
  IN  IF Has(d, K("X_FIRST"))
      THEN Put(m19, K("data_footprint"), VStr(DataFootprint(d)))
      ELSE m19

\* lines 129-248: the translation of the aliased attributes d:
\* [err |-> the exception raised or "none", dict |-> the result]
TranslateAliased(d, dates, today) ==
  IF TranslateError(d, dates) # "none"
  THEN [err |-> TranslateError(d, dates), dict |-> EmptyDict]
  ELSE [err |-> "none", dict |-> TranslateDict(d, dates, today)]

metadata_pysar2unavco_OrbitDefaulted(attrs, dates, today) ==
  LET d == AliasPass(attrs)
  IN  TranslateAliased(IF Has(d, K("relative_orbit")) THEN d
                       ELSE Put(d, K("relative_orbit"), VStr(<<"0">>)),
                       dates, today)

\* lines 119-248
metadata_pysar2unavco(attrs, dates, today) ==
  TranslateAliased(AliasPass(attrs), dates, today)

\* lines 251-265
prep_metadata(attrs, dates, today) ==
  LET r == metadata_pysar2unavco(attrs, dates, today)
  IN  IF r.err # "none" THEN r
      ELSE [err |-> "none",
            dict |-> Put(Update(DictOf(attrs), r.dict), K("FILE_TYPE"),
                         VStr(<<"H","D","F","E","O","S">>))]

(***************************************************************************)
(* get_output_filename                                                     *)
(***************************************************************************)
\* lines 270-273: SW
BeamText(metadata) ==
  IF Truthy(metadata[K("beam_swath")])
  THEN metadata[K("beam_mode")].str \o TextOf(metadata[K("beam_swath")])
  ELSE metadata[K("beam_mode")].str

\* lines 277-280: frame1
Frame1(metadata) ==
  IF Has(metadata, K("first_frame"))
  THEN IntVal(metadata[K("first_frame")])
  ELSE IntVal(metadata[K("frame")])

FrameText_AlwaysLast(metadata) ==
  IF Has(metadata, K("last_frame"))
  THEN PadInt(4, Frame1(metadata)) \o <<"_">>
         \o PadInt(4, IntVal(metadata[K("last_frame")]))
  ELSE PadInt(4, Frame1(metadata))

\* lines 281-286: FRAME
FrameText(metadata) ==
  IF Has(metadata, K("last_frame"))
       /\ IntVal(metadata[K("last_frame")]) # Frame1(metadata)
  THEN PadInt(4, Frame1(metadata)) \o <<"_">>
         \o PadInt(4, IntVal(metadata[K("last_frame")]))
  ELSE PadInt(4, Frame1(metadata))

\* lines 290-294: DATE2
Date2Text(metadata, update_mode) ==
  IF update_mode
  THEN <<"X","X","X","X","X","X","X","X">>
  ELSE CompactText(IsoDateVal(metadata[K("last_date")].str))

\* line 296: outName
BaseName(metadata, update_mode) ==
  metadata[K("mission")].str \o <<"_">>
    \o BeamText(metadata) \o <<"_">>
    \o PadInt(3, IntVal(metadata[K("relative_orbit")])) \o <<"_">>
    \o FrameText(metadata) \o <<"_">>
    \o CompactText(IsoDateVal(metadata[K("first_date")].str)) \o <<"_">>
    \o Date2Text(metadata, update_mode)
    \o <<".","h","e","5">>

LatText_NoHemisphere(lat) ==
  <<"N">> \o PadInt(5, RoundMilli(lat))

\* lines 305-306 and 309-310
LatText(lat) ==
  IF lat < 0
  THEN <<"S">> \o PadInt(5, RoundMilli(Abs(lat)))
  ELSE <<"N">> \o PadInt(5, RoundMilli(lat))

\* lines 307-308 and 311-312
LonText(lon) ==
  IF lon < 0
  THEN <<"W">> \o PadInt(6, RoundMilli(Abs(lon)))
  ELSE <<"E">> \o PadInt(6, RoundMilli(lon))

\* lines 300-314: SUB
SubsetText(metadata) ==
  LET lat1 == FloatVal(metadata[K("Y_FIRST")])
      lon0 == FloatVal(metadata[K("X_FIRST")])
      lat0 == lat1 + FloatVal(metadata[K("Y_STEP")]) * IntVal(metadata[K("LENGTH")])
      lon1 == lon0 + FloatVal(metadata[K("X_STEP")]) * IntVal(metadata[K("WIDTH")])
  IN  <<"_">> \o LatText(lat0) \o <<"_">> \o LatText(lat1)
        \o <<"_">> \o LonText(lon0) \o <<"_">> \o LonText(lon1)

\* os.path.splitext: the position of the dot that starts the extension, 0 if
\* the name has none (a dot before the last '/' or leading the name is none)
ExtPos(name) ==
  LET seps == {i \in 1..Len(name) : name[i] = "/"}
      sep  == IF seps = {} THEN 0
              ELSE CHOOSE i \in seps : \A j \in seps : j <= i
      dots == {i \in (sep + 1)..Len(name) : name[i] = "."}
      dot  == IF dots = {} THEN 0
              ELSE CHOOSE i \in dots : \A j \in dots : j <= i
  IN  IF dot = 0 \/ \A j \in (sep + 1)..dot : name[j] = "." THEN 0 ELSE dot

\* os.path.splitext(name)[0]
SplitExtRoot(name) ==
  IF ExtPos(name) = 0 THEN name ELSE SubSeq(name, 1, ExtPos(name) - 1)

\* os.path.splitext(name)[1]
SplitExtExt(name) ==
  IF ExtPos(name) = 0 THEN <<>> ELSE SubSeq(name, ExtPos(name), Len(name))

\* lines 300-303: the exception of the first statement that raises, if any
SubsetError(metadata) ==
  IF ~Has(metadata, K("Y_FIRST")) THEN "KeyError"
  ELSE IF ~FloatOk(metadata[K("Y_FIRST")]) THEN "ValueError"
  ELSE IF ~Has(metadata, K("X_FIRST")) THEN "KeyError"
  ELSE IF ~FloatOk(metadata[K("X_FIRST")]) THEN "ValueError"
  ELSE IF ~Has(metadata, K("Y_STEP")) THEN "KeyError"
  ELSE IF ~FloatOk(metadata[K("Y_STEP")]) THEN "ValueError"
  ELSE IF ~Has(metadata, K("LENGTH")) THEN "KeyError"
  ELSE IF ~IntOk(metadata[K("LENGTH")]) THEN "ValueError"
  ELSE IF ~Has(metadata, K("X_STEP")) THEN "KeyError"
  ELSE IF ~FloatOk(metadata[K("X_STEP")]) THEN "ValueError"
  ELSE IF ~Has(metadata, K("WIDTH")) THEN "KeyError"
  ELSE IF ~IntOk(metadata[K("WIDTH")]) THEN "ValueError"
  ELSE "none"

\* lines 270-296: the exception of the first statement that raises, if any.
\* Line 296 adds '_' to the mission: a TypeError when the mission is None.
NameError(metadata) ==
  IF ~Has(metadata, K("mission")) \/ ~Has(metadata, K("beam_mode"))
       \/ ~Has(metadata, K("beam_swath"))
  THEN "KeyError"
  ELSE IF Truthy(metadata[K("beam_swath")]) /\ ~IsStr(metadata[K("beam_mode")])
  THEN "TypeError"
  ELSE IF ~Has(metadata, K("relative_orbit")) THEN "KeyError"
  ELSE IF ~IntOk(metadata[K("relative_orbit")])
  THEN (IF IsNone(metadata[K("relative_orbit")]) THEN "TypeError" ELSE "ValueError")
  ELSE IF ~Has(metadata, K("frame")) THEN "KeyError"
  ELSE IF ~IntOk(metadata[K("frame")])
  THEN (IF IsNone(metadata[K("frame")]) THEN "TypeError" ELSE "ValueError")
  ELSE IF Has(metadata, K("first_frame")) /\ ~IntOk(metadata[K("first_frame")])
  THEN "ValueError"
  ELSE IF Has(metadata, K("last_frame")) /\ ~IntOk(metadata[K("last_frame")])
  THEN "ValueError"
  ELSE IF ~Has(metadata, K("first_date")) THEN "KeyError"
  ELSE IF ~IsStr(metadata[K("first_date")]) THEN "TypeError"
  ELSE IF ~IsoDateOk(metadata[K("first_date")].str) THEN "ValueError"
  ELSE IF ~Has(metadata, K("last_date")) THEN "KeyError"
  ELSE IF ~IsStr(metadata[K("last_date")]) THEN "TypeError"
  ELSE IF ~IsoDateOk(metadata[K("last_date")].str) THEN "ValueError"
  ELSE IF ~IsStr(metadata[K("mission")]) \/ ~IsStr(metadata[K("beam_mode")])
  THEN "TypeError"
  ELSE "none"

\* lines 268-318: [err |-> the exception raised or "none", name |-> the result]
get_output_filename(metadata, update_mode, subset_mode) ==
  IF NameError(metadata) # "none"
  THEN [err |-> NameError(metadata), name |-> <<>>]
  ELSE IF ~subset_mode
  THEN [err |-> "none", name |-> BaseName(metadata, update_mode)]
  ELSE IF SubsetError(metadata) # "none"
  THEN [err |-> SubsetError(metadata), name |-> <<>>]
  ELSE [err |-> "none",
        name |-> SplitExtRoot(BaseName(metadata, update_mode))
                   \o SubsetText(metadata)
                   \o SplitExtExt(BaseName(metadata, update_mode))]

(***************************************************************************)
(* write2hdf5: the attributes each dataset is given.  Dataset names and    *)
(* units are atoms ([name |-> "meters"]); FLOAT_ZERO is the float 0 and    *)
(* BOOL_ZERO is [bool |-> FALSE].                                          *)
(***************************************************************************)
VName(n) ==
  [name |-> n]

FLOAT_ZERO ==
  VFlt(0)

BOOL_ZERO ==
  [bool |-> FALSE]

EmptyAttrs ==
  [a \in {} |-> VNone]

FourAttrs_NoFillValue(dsName, zero, units) ==
  [a \in {"Title", "MissingValue", "Units"} |->
     IF a = "Title" THEN VName(dsName)
     ELSE IF a = "Units" THEN VName(units)
     ELSE zero]

\* the four assignments dset.attrs[...] = ...
FourAttrs(dsName, zero, units) ==
  [a \in {"Title", "MissingValue", "_FillValue", "Units"} |->
     IF a = "Title" THEN VName(dsName)
     ELSE IF a = "Units" THEN VName(units)
     ELSE zero]

\* lines 462-486: the attributes of a layer of the geometry group
GeometryAttrs(dsName) ==
  IF dsName \in {"height", "slantRangeDistance", "bperp"}
  THEN FourAttrs(dsName, FLOAT_ZERO, "meters")
  ELSE IF dsName \in {"incidenceAngle", "headingAngle", "latitude", "longitude"}
  THEN FourAttrs(dsName, FLOAT_ZERO, "degrees")
  ELSE IF dsName \in {"rangeCoord", "azimuthCoord"}
  THEN FourAttrs(dsName, FLOAT_ZERO, "1")
  ELSE IF dsName \in {"waterMask", "shadowMask"}
  THEN FourAttrs(dsName, BOOL_ZERO, "1")
  ELSE [a \in {"Title"} |-> VName(dsName)]

\* the container before h5py.File creates it
NoFile ==
  [open |-> FALSE, groups |-> {}, dsets |-> [x \in {} |-> EmptyAttrs],
   attrs |-> EmptyDict]

\* h5py.File(out_file, 'w'): an empty container, open
NewFile ==
  [open |-> TRUE, groups |-> {}, dsets |-> [x \in {} |-> EmptyAttrs],
   attrs |-> EmptyDict]

\* f.create_group(gName)
WithGroup(file, gName) ==
  [file EXCEPT !.groups = @ \cup {gName}]

\* group.create_dataset(dsName, ...) and the attributes set on it
WithDataset(file, gName, dsName, attrs) ==
  [file EXCEPT !.dsets =
     [x \in (DOMAIN @) \cup {<<gName, dsName>>} |->
        IF x = <<gName, dsName>> THEN attrs ELSE @[x]]]

(***************************************************************************)
(* The inputs of a run.  The model draws them from bounded families, each  *)
(* a variation of the reference source: a Sentinel-1 time series of track  *)
(* 5, frame 117, beam IW1, right-looking, 20150101..20181231.              *)
(***************************************************************************)
Entry(key, text) ==
  [key |-> key, val |-> VStr(text)]

\* the entries of attrs whose key is not in keys
RECURSIVE Without(_, _)
Without(attrs, keys) ==
  IF attrs = <<>> THEN <<>>
  ELSE IF attrs[1].key \in keys THEN Without(Tail(attrs), keys)
  ELSE <<attrs[1]>> \o Without(Tail(attrs), keys)

\* stands for "no such key" where a family lists the texts of a key
Absent ==
  <<"absent">>

\* the entry of name, unless the text is Absent
Opt(name, text) ==
  IF text = Absent THEN <<>> ELSE <<Entry(K(name), text)>>

CornerAttrs ==
  << Entry(K("LON_REF1"), <<"1","3","0",".","2">>), Entry(K("LAT_REF1"), <<"3","1",".","5">>),
     Entry(K("LON_REF2"), <<"1","3","1",".","2">>), Entry(K("LAT_REF2"), <<"3","1",".","7">>),
     Entry(K("LON_REF3"), <<"1","3","0",".","1">>), Entry(K("LAT_REF3"), <<"3","2",".","4">>),
     Entry(K("LON_REF4"), <<"1","3","1",".","1">>), Entry(K("LAT_REF4"), <<"3","2",".","6">>) >>

BaseAttrs ==
  << Entry(K("PLATFORM"), <<"S","e","n","t","i","n","e","l","-","1">>),
     Entry(K("beam_mode"), <<"I","W">>),
     Entry(K("beam_swath"), <<"1">>),
     Entry(K("relative_orbit"), <<"5">>),
     Entry(K("frame"), <<"1","1","7">>),
     Entry(K("ANTENNA_SIDE"), <<"-","1">>) >> \o CornerAttrs

GeoAttrs ==
  << Entry(K("X_FIRST"), <<"1","3","0",".","5">>), Entry(K("Y_FIRST"), <<"3","2",".","1">>),
     Entry(K("X_STEP"), <<"0",".","0","0","1">>), Entry(K("Y_STEP"), <<"-","0",".","0","0","1">>),
     Entry(K("WIDTH"), <<"6","0","0">>), Entry(K("LENGTH"), <<"4","0","0">>) >>

BaseDates ==
  << <<"2","0","1","5","0","1","0","1">>, <<"2","0","1","8","1","2","3","1">> >>

BaseLayers ==
  << "height", "incidenceAngle" >>

\* mission indicators: a stem, as written, upper-cased or capitalised, and a tail
MissionPrefixes ==
  { <<"e","r","s">>, <<"e","n","v">>, <<"a","s","a","r">>, <<"s","1">>,
      <<"s","e","n">>, <<"r","s">>, <<"r","s","a","t">>,
      <<"r","a","d","a","r","s","a","t">>, <<"c","s","k">>,
    <<"c","o","s">>, <<"t","s","x">>, <<"t","d","x">>,
        <<"t","e","r","r","a">>, <<"t","a","n","d","e","m">>,
        <<"j","e","r","s">>, <<"a","l","o","s">>,
        <<"p","a","l","s","a","r">> }

OtherStems ==
  { <<>>, <<"e">>, <<"e","r">>, <<"r">>, <<"s","a">>, <<"a","l","o">>,
      <<"j","e","r">>, <<"x","e","r","s">>, <<"1","r","s">>,
      <<"l","a","n","d","s","a","t">>,
    <<"S","e","n","t","i","n","e","l","-">>,
        <<"T","e","r","r","a","S","A","R","-","X">>,
        <<"R","A","D","A","R","S","A","T","-">>, <<"A","L","O","S","-">> }

Upper(s) ==
  [i \in 1..Len(s) |-> UpperChar(s[i])]

Capitalised(s) ==
  [i \in 1..Len(s) |-> IF i = 1 THEN UpperChar(s[i]) ELSE s[i]]

MissionTails ==
  { <<>>, <<"1">>, <<"2">>, <<"a">> }

MissionTexts ==
  { stem \o tail :
      stem \in MissionPrefixes \cup {Upper(p) : p \in MissionPrefixes}
                 \cup {Capitalised(p) : p \in MissionPrefixes} \cup OtherStems,
      tail \in MissionTails }

MissionInputs ==
  LET rest == Without(BaseAttrs, {K("PLATFORM")})
  IN  { <<Entry(K("mission"), t)>> \o rest : t \in MissionTexts }
        \cup { rest \o <<Entry(K("PLATFORM"), t)>> : t \in MissionTexts }
        \cup { <<Entry(K("PLATFORM"), p), Entry(K("mission"), m)>> \o rest :
                 p \in {<<"A","L","O","S","2">>, <<"z","z","z">>},
                     m \in {<<"E","n","v","i","s","a","t">>, <<"z","z","z">>,
                     <<"R","S","A","T","1">>} }
        \cup { rest }

\* the attributes that the translation requires, each under its own key and
\* under keys that carry a prefix marker, in every order
MaxKeyForms == 3

RequiredNames ==
  { "relative_orbit", "beam_mode", "ANTENNA_SIDE" }

KeyForms(name) ==
  { <<name>>, <<"unavco", name>>, <<"hdfEos5", name>>,
    <<"unavco", "hdfEos5", name>> }

FormText(name, key) ==
  IF name = "relative_orbit"
  THEN (IF key = <<name>> THEN <<"5">>
        ELSE IF key = <<"unavco", name>> THEN <<"7">>
        ELSE IF key = <<"hdfEos5", name>> THEN <<"9">> ELSE <<"1","1">>)
  ELSE IF name = "beam_mode"
  THEN (IF key = <<name>> THEN <<"I","W">>
        ELSE IF key = <<"unavco", name>> THEN <<"S","M">>
        ELSE IF key = <<"hdfEos5", name>> THEN <<"E","W">> ELSE <<"W","V">>)
  ELSE (IF key \in {<<name>>, <<"hdfEos5", name>>} THEN <<"-","1">> ELSE <<"1">>)

\* the sequences of at most n distinct elements of S
RECURSIVE Arrangements(_, _)
Arrangements(S, n) ==
  IF n = 0 THEN {<<>>}
  ELSE LET shorter == Arrangements(S, n - 1)
       IN  shorter \cup
             UNION { { Append(q, x) : x \in S \ {q[i] : i \in 1..Len(q)} } :
                     q \in { r \in shorter : Len(r) = n - 1 } }

AliasInputs ==
  UNION { { [i \in 1..Len(ks) |-> Entry(ks[i], FormText(name, ks[i]))]
              \o Without(BaseAttrs, {K(name)}) :
              ks \in Arrangements(KeyForms(name), MaxKeyForms) } :
          name \in RequiredNames }

\* the dates that datetime.utcnow() may return
BaseToday ==
  [y |-> 2018, m |-> 12, d |-> 31]

Todays ==
  { BaseToday, [y |-> 2019, m |-> 1, d |-> 1] }

\* one run's inputs
Input(attrs, dates, update_mode, subset_mode, names, file, now) ==
  [src |-> attrs, dateList |-> dates, update |-> update_mode,
   subset |-> subset_mode, layers |-> names, disk |-> file, today |-> now]

Plain(attrs) ==
  Input(attrs, BaseDates, FALSE, FALSE, BaseLayers, "old", BaseToday)

\* beam swath and relative orbit
SwathInputs ==
  { Input(Opt("beam_swath", sw) \o Opt("relative_orbit", ro)
            \o Without(BaseAttrs, {K("beam_swath"), K("relative_orbit")}),
          BaseDates, u, FALSE, BaseLayers, "old", BaseToday) :
      sw \in {Absent, <<"0">>, <<"1">>, <<"2">>, <<"x">>, <<>>},
      ro \in {<<"0">>, <<"5">>, <<"4","2">>, <<"1","7","5">>, <<"9","9","9">>,
          <<" ","7">>, <<"x">>},
      u \in BOOLEAN }

\* frame, first_frame and last_frame
FrameTexts ==
  { Absent, <<"1","1","7">>, <<"1","1","8">>, <<"x">> }

FrameInputs ==
  { Input(Opt("frame", fr) \o Opt("first_frame", ff) \o Opt("last_frame", lf)
            \o Without(BaseAttrs, {K("frame")}),
          BaseDates, u, FALSE, BaseLayers, "old", BaseToday) :
      fr \in FrameTexts, ff \in FrameTexts, lf \in FrameTexts, u \in BOOLEAN }

\* the date list
DateLists ==
  { BaseDates,
    << <<"2","0","1","6","0","2","2","9">> >>,
    << <<"1","9","9","9","1","2","3","1">>,
        <<"2","0","0","0","0","1","0","1">>,
        <<"2","0","2","4","0","2","2","9">> >>,
    << <<"2","0","1","5","0","2","3","0">>, <<"2","0","1","5","0","3","0","1">> >>,
    << >> }

DateInputs ==
  { Input(BaseAttrs, dl, u, FALSE, BaseLayers, "old", BaseToday) :
      dl \in DateLists, u \in BOOLEAN }

\* the geocoding anchors: the longitude triple and the latitude triple, of
\* grids within 180 degrees of longitude and 90 degrees of latitude
LonTexts ==
  { <<"1","3","0",".","5">>, <<"0">>, <<"0",".","0","0","0","5">>,
      <<"-","0",".","0","0","0","4">>, <<"-","0",".","0","0","1","5">>,
      <<"-","1","7","9",".","9","9","9","5">>,
      <<"-","0",".","0","0","2","5">> }

LatTexts ==
  { <<"3","2",".","1">>, <<"0">>, <<"0",".","0","0","0","5">>,
      <<"-","0",".","0","0","0","4">>, <<"-","0",".","0","0","1","5">>,
      <<"-","3","3",".","3">>, <<"-","0",".","0","0","2","5">>,
      <<"8","9",".","9","9","8","5">> }

StepTexts ==
  { <<"0",".","0","0","1">>, <<"-","0",".","0","0","1">>,
      <<"0",".","0","0","0","5">>, <<"-","0",".","0","0","0","5">> }

SizeTexts ==
  { <<"6","0","0">>, <<"4","0","0">>, <<"1">> }

GeoInputs ==
  { Input(BaseAttrs \o Without(GeoAttrs, {K("X_FIRST"), K("X_STEP"), K("WIDTH")})
            \o <<Entry(K("X_FIRST"), x), Entry(K("X_STEP"), st), Entry(K("WIDTH"), n)>>,
          BaseDates, FALSE, sub, BaseLayers, "old", BaseToday) :
      x \in LonTexts, st \in StepTexts, n \in SizeTexts, sub \in BOOLEAN }
    \cup
  { Input(BaseAttrs \o Without(GeoAttrs, {K("Y_FIRST"), K("Y_STEP"), K("LENGTH")})
            \o <<Entry(K("Y_FIRST"), y), Entry(K("Y_STEP"), st), Entry(K("LENGTH"), n)>>,
          BaseDates, FALSE, sub, BaseLayers, "old", BaseToday) :
      y \in LatTexts, st \in StepTexts, n \in SizeTexts, sub \in BOOLEAN }
    \cup
  { Input(BaseAttrs \o Without(GeoAttrs, {K(name)}) \o Opt(name, t),
          BaseDates, u, sub, BaseLayers, "old", BaseToday) :
      name \in {"X_FIRST", "Y_FIRST", "X_STEP", "Y_STEP", "WIDTH", "LENGTH"},
      t \in {Absent, <<"x">>}, u \in BOOLEAN, sub \in BOOLEAN }
    \cup
  { Input(BaseAttrs, BaseDates, u, TRUE, BaseLayers, "old", BaseToday) : u \in BOOLEAN }

\* the best-effort attributes: one of them at a time absent, well-formed or
\* not coercible, the others absent or all not coercible
BestEffortNames ==
  { "beam_swath", "processing_type", "frame", "first_frame",
    "post_processing_method", "atmos_correct_method", "processing_dem",
    "unwrap_method", "ORBIT_DIRECTION", "POLARIZATION", "PRF", "WAVELENGTH" }

GoodText(name) ==
  IF name \in {"beam_swath", "frame", "first_frame"} THEN <<"3">>
  ELSE IF name = "PRF" THEN <<"1","7","1","7",".","1","3">>
  ELSE IF name = "WAVELENGTH" THEN <<"0",".","0","5","5","5">>
  ELSE IF name = "ORBIT_DIRECTION" THEN <<"a","s","c","e","n","d","i","n","g">>
  ELSE IF name = "POLARIZATION" THEN <<"V","V">>
  ELSE <<"S","R","T","M">>

BadTexts ==
  { <<>>, <<"n","/","a">>, <<"1",".","5">> }

\* an order in which the attributes of a family are listed
NameOrder ==
  << "beam_swath", "processing_type", "frame", "first_frame",
     "post_processing_method", "atmos_correct_method", "processing_dem",
     "unwrap_method", "ORBIT_DIRECTION", "POLARIZATION", "PRF", "WAVELENGTH" >>

RECURSIVE EntriesOf(_, _)
EntriesOf(names, text) ==
  IF names = <<>> THEN <<>>
  ELSE Opt(names[1], text[names[1]]) \o EntriesOf(Tail(names), text)

RequiredAttrs ==
  Without(BaseAttrs, {K(n) : n \in BestEffortNames})

BestEffortInputs ==
  UNION { { Plain(RequiredAttrs
                    \o EntriesOf(NameOrder,
                         [n \in BestEffortNames |->
                            IF n = name THEN t ELSE other])) :
              t \in {Absent, GoodText(name)} \cup BadTexts,
              other \in {Absent, <<"n","/","a">>} } :
          name \in BestEffortNames }
    \cup
  { Plain(RequiredAttrs
            \o EntriesOf(NameOrder, [n \in BestEffortNames |-> GoodText(n)])) }

\* the layers of the geometry file and the file at the output path
MaxLayers == 2

LayerNames ==
  { "height", "incidenceAngle", "rangeCoord", "waterMask", "azimuthAngle" }

WriterInputs ==
  { Input(BaseAttrs \o GeoAttrs, BaseDates, FALSE, FALSE, names, file, now) :
      names \in Arrangements(LayerNames, MaxLayers),
      file \in {"absent", "old"},
      now \in Todays }

Inputs ==
  { Plain(a) : a \in MissionInputs \cup AliasInputs }
    \cup SwathInputs \cup FrameInputs \cup DateInputs \cup GeoInputs
    \cup BestEffortInputs \cup WriterInputs

(***************************************************************************)
(* main, as a state machine: one action per stage of main and per step of  *)
(* write2hdf5.                                                             *)
(***************************************************************************)
VARIABLES
  src,        \* ts_obj.metadata, in iteration order
  dateList,   \* ts_obj.dateList
  update,     \* inps.update
  subset,     \* inps.subset
  layers,     \* geom_obj.datasetNames
  today,      \* the date datetime.utcnow() returns
  disk,       \* the file at the output path: "absent", "old" or "container"
  pc,         \* the statement main has reached
  err,        \* the exception that ended the run, "none" if none did
  unavco_meta_dict,  \* the result of metadata_pysar2unavco
  meta_dict,  \* the result of prep_metadata
  outName,    \* the result of get_output_filename
  f,          \* the container h5py.File holds
  gi,         \* the number of geometry layers written
  log         \* the stages the run has gone through

vars ==
  <<src, dateList, update, subset, layers, today, disk, pc, err, unavco_meta_dict,
    meta_dict, outName, f, gi, log>>

inputs ==
  <<src, dateList, update, subset, layers, today>>

Init ==
  \E in \in Inputs :
    /\ src = in.src
    /\ dateList = in.dateList
    /\ update = in.update
    /\ subset = in.subset
    /\ layers = in.layers
    /\ today = in.today
    /\ disk = in.disk
    /\ pc = "start"
    /\ err = "none"
    /\ unavco_meta_dict = EmptyDict
    /\ meta_dict = EmptyDict
    /\ outName = <<>>
    /\ f = NoFile
    /\ gi = 0
    /\ log = <<>>

ObservationGroup ==
  "HDFEOS/GRIDS/timeseries/observation"

QualityGroup ==
  "HDFEOS/GRIDS/timeseries/quality"

GeometryGroup ==
  "HDFEOS/GRIDS/timeseries/geometry"

\* line 505: prep_metadata
PrepMetadata ==
  /\ pc = "start"
  /\ LET u == metadata_pysar2unavco(src, dateList, today)
         r == prep_metadata(src, dateList, today)
     IN  /\ unavco_meta_dict' = u.dict
         /\ meta_dict' = r.dict
         /\ err' = r.err
         /\ pc' = IF r.err = "none" THEN "translated" ELSE "failed"
  /\ log' = Append(log, "translate")
  /\ UNCHANGED <<inputs, disk, outName, f, gi>>

\* lines 508-510: get_output_filename
GetOutputFilename ==
  /\ pc = "translated"
  /\ LET r == get_output_filename(meta_dict, update, subset)
     IN  /\ outName' = r.name
         /\ err' = r.err
         /\ pc' = IF r.err = "none" THEN "named" ELSE "failed"
  /\ log' = Append(log, "name")
  /\ UNCHANGED <<inputs, disk, unavco_meta_dict, meta_dict, f, gi>>

CreateFile_BeforeName ==
  /\ pc = "translated"
  /\ f' = NewFile
  /\ disk' = "container"
  /\ pc' = "created"
  /\ log' = Append(log, "create")
  /\ UNCHANGED <<inputs, err, unavco_meta_dict, meta_dict, outName, gi>>

\* line 350: h5py.File(out_file, 'w') truncates the file at the output path
CreateFile ==
  /\ pc = "named"
  /\ f' = NewFile
  /\ disk' = "container"
  /\ pc' = "created"
  /\ log' = Append(log, "create")
  /\ UNCHANGED <<inputs, err, unavco_meta_dict, meta_dict, outName, gi>>

\* a step of write2hdf5 that leaves the container as file
Step(from, to, file) ==
  /\ pc = from
  /\ f' = file
  /\ pc' = to
  /\ UNCHANGED <<inputs, disk, err, unavco_meta_dict, meta_dict, outName, gi>>

\* line 357
CreateObservationGroup ==
  /\ Step("created", "observation", WithGroup(f, ObservationGroup))
  /\ log' = Append(log, "observation")

\* lines 359-376
WriteDisplacement ==
  /\ Step("observation", "displacement",
          WithDataset(f, ObservationGroup, "displacement",
                      FourAttrs("displacement", FLOAT_ZERO, "meters")))
  /\ UNCHANGED log

\* lines 378-380
WriteDate ==
  /\ Step("displacement", "date",
          WithDataset(f, ObservationGroup, "date", EmptyAttrs))
  /\ UNCHANGED log

\* lines 387-389
WriteBperp ==
  /\ Step("date", "bperp",
          WithDataset(f, ObservationGroup, "bperp", EmptyAttrs))
  /\ UNCHANGED log

\* line 399
CreateQualityGroup ==
  /\ Step("bperp", "quality", WithGroup(f, QualityGroup))
  /\ log' = Append(log, "quality")

\* lines 402-418
WriteTemporalCoherence ==
  /\ Step("quality", "temporalCoherence",
          WithDataset(f, QualityGroup, "temporalCoherence",
                      FourAttrs("temporalCoherence", FLOAT_ZERO, "1")))
  /\ UNCHANGED log

\* lines 421-437
WriteMask ==
  /\ Step("temporalCoherence", "mask",
          WithDataset(f, QualityGroup, "mask",
                      FourAttrs("mask", BOOL_ZERO, "1")))
  /\ UNCHANGED log

\* line 444
CreateGeometryGroup ==
  /\ Step("mask", "geometry", WithGroup(f, GeometryGroup))
  /\ log' = Append(log, "geometry")

\* lines 448-486: one turn of the loop over the layers
WriteGeometryLayer ==
  /\ pc = "geometry"
  /\ gi < Len(layers)
  /\ f' = WithDataset(f, GeometryGroup, layers[gi + 1],
                      GeometryAttrs(layers[gi + 1]))
  /\ gi' = gi + 1
  /\ UNCHANGED <<inputs, disk, pc, err, unavco_meta_dict, meta_dict, outName, log>>

\* lines 490-491
WriteRootAttributes ==
  /\ pc = "geometry"
  /\ gi = Len(layers)
  /\ f' = [f EXCEPT !.attrs = Update(@, meta_dict)]
  /\ pc' = "attributes"
  /\ log' = Append(log, "attributes")
  /\ UNCHANGED <<inputs, disk, err, unavco_meta_dict, meta_dict, outName, gi>>

\* line 492
Close ==
  /\ pc = "attributes"
  /\ f' = [f EXCEPT !.open = FALSE]
  /\ pc' = "done"
  /\ log' = Append(log, "close")
  /\ UNCHANGED <<inputs, disk, err, unavco_meta_dict, meta_dict, outName, gi>>

\* the statements at which a dataset is read from its source file and written
DatasetSteps ==
  { "observation", "displacement", "date", "quality", "temporalCoherence" }

\* a read of a source file or a create_dataset raises: nothing catches it, so
\* main ends with the container as it is, and f.close() is not reached
FailWrite ==
  /\ \/ pc \in DatasetSteps
     \/ pc = "geometry" /\ gi < Len(layers)
  /\ pc' = "failed"
  /\ err' = "IOError"
  /\ UNCHANGED <<inputs, disk, unavco_meta_dict, meta_dict, outName, f, gi, log>>

Next ==
  \/ PrepMetadata
  \/ GetOutputFilename
  \/ CreateFile
  \/ CreateObservationGroup
  \/ WriteDisplacement
  \/ WriteDate
  \/ WriteBperp
  \/ CreateQualityGroup
  \/ WriteTemporalCoherence
  \/ WriteMask
  \/ CreateGeometryGroup
  \/ WriteGeometryLayer
  \/ WriteRootAttributes
  \/ Close
  \/ FailWrite

Spec ==
  Init /\ [][Next]_vars

(***************************************************************************)
(* Properties.  They read the inputs of the run (src, dateList, update,    *)
(* subset) and compare what the program computed with what is expected of  *)
(* it, computed here without the program's own formatting operators.       *)
(***************************************************************************)
\* the source map has the key
SrcHas(key) ==
  \E i \in 1..Len(src) : src[i].key = key

\* the text the source map holds under the key
SrcText(key) ==
  src[CHOOSE i \in 1..Len(src) : src[i].key = key].val.str

\* metadata_pysar2unavco has returned
Translated ==
  pc # "start" /\ unavco_meta_dict # EmptyDict

\* get_output_filename has returned
Named ==
  pc \notin {"start", "translated", "failed"} /\ outName # <<>>

(***************************************************************************)
(* C1: get_mission_name reads `mission` if present, else `PLATFORM`,       *)
(* lower-cases the value and returns the code of the first prefix rule     *)
(* that matches (RS1/RS2 and ALOS/ALOS2 by the last character); it returns *)
(* None, without raising, when no rule matches or neither key is present.  *)
(***************************************************************************)
C1_Rules ==
  << [prefixes |-> {<<"e","r","s">>}, last |-> <<>>, code |-> <<"E","R","S">>,
      other |-> <<"E","R","S">>],
     [prefixes |-> {<<"e","n","v">>, <<"a","s","a","r">>}, last |-> <<>>,
         code |-> <<"E","N","V">>, other |-> <<"E","N","V">>],
     [prefixes |-> {<<"s","1">>, <<"s","e","n">>}, last |-> <<>>,
         code |-> <<"S","1">>, other |-> <<"S","1">>],
     [prefixes |-> {<<"r","s">>, <<"r","s","a","t">>,
         <<"r","a","d","a","r","s","a","t">>}, last |-> <<"1">>,
      code |-> <<"R","S","1">>, other |-> <<"R","S","2">>],
     [prefixes |-> {<<"c","s","k">>, <<"c","o","s">>}, last |-> <<>>,
         code |-> <<"C","S","K">>, other |-> <<"C","S","K">>],
     [prefixes |-> {<<"t","s","x">>, <<"t","d","x">>, <<"t","e","r","r","a">>,
         <<"t","a","n","d","e","m">>}, last |-> <<>>,
      code |-> <<"T","S","X">>, other |-> <<"T","S","X">>],
     [prefixes |-> {<<"j","e","r","s">>}, last |-> <<>>,
         code |-> <<"J","E","R","S">>, other |-> <<"J","E","R","S">>],
     [prefixes |-> {<<"a","l","o","s">>, <<"p","a","l","s","a","r">>}, last |-> <<"2">>,
      code |-> <<"A","L","O","S","2">>, other |-> <<"A","L","O","S">>] >>

C1_Matches(text, rule) ==
  \E p \in rule.prefixes :
    /\ Len(text) >= Len(p)
    /\ \A i \in 1..Len(p) : LowerChar(text[i]) = p[i]

C1_EndsIn(text, last) ==
  last = <<>> \/ (text # <<>> /\ <<text[Len(text)]>> = last)

C1_Expected(text) ==
  IF \A k \in 1..Len(C1_Rules) : ~C1_Matches(text, C1_Rules[k])
  THEN VNone
  ELSE LET k == CHOOSE j \in 1..Len(C1_Rules) :
                  /\ C1_Matches(text, C1_Rules[j])
                  /\ \A h \in 1..(j - 1) : ~C1_Matches(text, C1_Rules[h])
       IN  IF C1_EndsIn(text, C1_Rules[k].last)
           THEN VStr(C1_Rules[k].code) ELSE VStr(C1_Rules[k].other)

C1_Indicator ==
  IF SrcHas(K("mission")) THEN SrcText(K("mission"))
  ELSE SrcText(K("PLATFORM"))

\* the run's source is the reference source but for mission and PLATFORM
C1_OnlyMissionVaries ==
  /\ Without(src, {K("mission"), K("PLATFORM")})
       = Without(BaseAttrs, {K("PLATFORM")})
  /\ dateList = BaseDates

C1_MissionName ==
  /\ Translated =>
       unavco_meta_dict[K("mission")] =
         IF SrcHas(K("mission")) \/ SrcHas(K("PLATFORM"))
         THEN C1_Expected(C1_Indicator) ELSE VNone
  /\ (pc # "start" /\ C1_OnlyMissionVaries) => Translated

\* RADARSAT without a final 1 is RS2, and an unknown indicator gives None
C1_Witness ==
  /\ Translated
  /\ SrcHas(K("mission"))
  /\ SrcText(K("mission")) = <<"R","a","d","a","r","s","a","t">>
  /\ unavco_meta_dict[K("mission")] = VStr(<<"R","S","2">>)

(***************************************************************************)
(* C2: when the source map has both `relative_orbit` and                   *)
(* `hdfEos5.relative_orbit`, in any order, the translated metadata and the *)
(* final metadata carry the value of `hdfEos5.relative_orbit`.             *)
(***************************************************************************)
C2_OverrideWins ==
  (/\ Translated
   /\ SrcHas(K("relative_orbit"))
   /\ SrcHas(<<"hdfEos5", "relative_orbit">>)
   /\ ~SrcHas(<<"unavco", "relative_orbit">>)
   /\ ~SrcHas(<<"unavco", "hdfEos5", "relative_orbit">>))
    => /\ unavco_meta_dict[K("relative_orbit")]
            = VInt(IntTextVal(SrcText(<<"hdfEos5", "relative_orbit">>)))
       /\ meta_dict[K("relative_orbit")]
            = VInt(IntTextVal(SrcText(<<"hdfEos5", "relative_orbit">>)))

(***************************************************************************)
(* Reading a file name back: the name without its last four characters,    *)
(* cut at every '_'.                                                       *)
(***************************************************************************)
\* the pieces of text between the separators
RECURSIVE Split(_, _)
Split(text, sep) ==
  IF \A i \in 1..Len(text) : text[i] # sep THEN <<text>>
  ELSE LET i == CHOOSE j \in 1..Len(text) :
                  text[j] = sep /\ \A h \in 1..(j - 1) : text[h] # sep
       IN  <<SubSeq(text, 1, i - 1)>> \o Split(SubSeq(text, i + 1, Len(text)), sep)

NameTokens ==
  Split(SubSeq(outName, 1, Len(outName) - 4), "_")

NameExtension ==
  SubSeq(outName, Len(outName) - 3, Len(outName))

\* tok is n written with exactly w digits
IsPadded(tok, w, n) ==
  Len(tok) = w /\ AllDigits(tok) /\ DigitsVal(tok) = n

\* the first frame of the final metadata: first_frame if the key is there
FirstFrame ==
  IF Has(meta_dict, K("first_frame"))
  THEN IntVal(meta_dict[K("first_frame")])
  ELSE IntVal(meta_dict[K("frame")])

\* a second frame is named: last_frame is there and is not the first frame
NamesTwoFrames ==
  /\ Has(meta_dict, K("last_frame"))
  /\ IntVal(meta_dict[K("last_frame")]) # FirstFrame

\* the tokens are the fields of the name of a run without subset mode
NameFields(toks) ==
  LET swath == meta_dict[K("beam_swath")].int
      mode  == meta_dict[K("beam_mode")].str
      extra == SubSeq(toks[2], Len(mode) + 1, Len(toks[2]))
      k     == IF NamesTwoFrames THEN 1 ELSE 0
  IN  /\ Len(toks) = 6 + k
      /\ toks[1] = meta_dict[K("mission")].str
      /\ SubSeq(toks[2], 1, Len(mode)) = mode
      /\ IF swath = 0 THEN extra = <<>>
         ELSE extra # <<>> /\ extra[1] # "0" /\ AllDigits(extra)
                /\ DigitsVal(extra) = swath
      /\ IsPadded(toks[3], 3, meta_dict[K("relative_orbit")].int)
      /\ IsPadded(toks[4], 4, FirstFrame)
      /\ NamesTwoFrames => IsPadded(toks[5], 4, IntVal(meta_dict[K("last_frame")]))
      /\ toks[5 + k] = dateList[1]
      /\ toks[6 + k] = IF update THEN <<"X","X","X","X","X","X","X","X">>
                       ELSE dateList[Len(dateList)]

\* the source map has all six geocoding anchors, well-formed
Geocoded ==
  /\ \A n \in {"X_FIRST", "Y_FIRST", "X_STEP", "Y_STEP"} :
       SrcHas(K(n)) /\ FloatTextOk(SrcText(K(n)))
  /\ \A n \in {"WIDTH", "LENGTH"} :
       SrcHas(K(n)) /\ IntTextOk(SrcText(K(n)))

\* the source map has none of the geocoding anchors
NotGeocoded ==
  \A i \in 1..Len(GeoAttrs) : ~SrcHas(GeoAttrs[i].key)

\* the run's source is the reference source, with or without geocoding
ReferenceRun ==
  /\ Without(src, {GeoAttrs[i].key : i \in 1..Len(GeoAttrs)}) = BaseAttrs
  /\ dateList = BaseDates
  /\ Geocoded \/ NotGeocoded

SrcFloat(name) ==
  FloatTextVal(SrcText(K(name)))

SrcInt(name) ==
  IntTextVal(SrcText(K(name)))

\* tok is the letter and the w digits of a nearest integer to |x| * 1000
IsBound(tok, x, plus, minus, w) ==
  /\ Len(tok) = w + 1
  /\ tok[1] = IF x < 0 THEN minus ELSE plus
  /\ AllDigits(Tail(tok))
  /\ 2 * Abs(DigitsVal(Tail(tok)) * (FloatScale \div 1000) - Abs(x))
       <= FloatScale \div 1000

C4_SubsetSuffix ==
  /\ (Named /\ subset) =>
       LET toks == NameTokens
           n    == Len(toks) - 4
       IN  /\ NameExtension = <<".","h","e","5">>
           /\ n >= 6
           /\ NameFields(SubSeq(toks, 1, n))
           /\ IsBound(toks[n + 1],
                      SrcFloat("Y_FIRST") + SrcFloat("Y_STEP") * SrcInt("LENGTH"),
                      "N", "S", 5)
           /\ IsBound(toks[n + 2], SrcFloat("Y_FIRST"), "N", "S", 5)
           /\ IsBound(toks[n + 3], SrcFloat("X_FIRST"), "E", "W", 6)
           /\ IsBound(toks[n + 4],
                      SrcFloat("X_FIRST") + SrcFloat("X_STEP") * SrcInt("WIDTH"),
                      "E", "W", 6)
  /\ (/\ ReferenceRun /\ Geocoded /\ ~update /\ subset
      /\ pc \notin {"start", "translated"}
      /\ \A i \in 1..Len(GeoAttrs) :
           SrcText(GeoAttrs[i].key) = GeoAttrs[i].val.str) =>
       outName =
         <<"S","1","_","I","W","1","_","0","0","5","_","0","1","1","7","_",
             "2","0","1","5","0","1","0","1","_","2","0","1","8","1","2","3",
             "1","_","N","3","1","7","0","0","_","N","3","2","1","0","0","_",
             "E","1","3","0","5","0","0","_","E","1","3","1","1","0","0",".",
             "h","e","5">>

\* a southern latitude that is half a milli-degree from two integers
C4_Witness ==
  /\ Named /\ subset
  /\ SrcFloat("Y_FIRST") = -25
  /\ NameTokens[Len(NameTokens) - 2] = <<"S","0","0","0","0","2">>

(***************************************************************************)
(* Reading a footprint back: the vertices of POLYGON((x y,x y,...)), each  *)
(* a pair of texts.                                                        *)
(***************************************************************************)
IsPolygon(text) ==
  /\ Len(text) >= 11
  /\ SubSeq(text, 1, 9) = <<"P","O","L","Y","G","O","N","(","(">>
  /\ SubSeq(text, Len(text) - 1, Len(text)) = <<")",")">>

Vertices(text) ==
  LET parts == Split(SubSeq(text, 10, Len(text) - 2), ",")
  IN  [i \in 1..Len(parts) |-> Split(parts[i], " ")]

\* the vertices as pairs of numbers
Points(text) ==
  LET vs == Vertices(text)
  IN  [i \in 1..Len(vs) |-> <<FloatTextVal(vs[i][1]), FloatTextVal(vs[i][2])>>]

\* the reference corner c ("1" to "4") as a pair of texts
Corner(c) ==
  <<SrcText(K("LON_REF" \o c)), SrcText(K("LAT_REF" \o c))>>

SceneRingOk ==
  LET text == unavco_meta_dict[K("scene_footprint")].str
  IN  /\ IsPolygon(text)
      /\ Vertices(text)
           = <<Corner("1"), Corner("3"), Corner("4"), Corner("2"), Corner("1")>>

West ==
  SrcFloat("X_FIRST")

North ==
  SrcFloat("Y_FIRST")

\* X_FIRST + X_STEP*WIDTH and Y_FIRST + Y_STEP*LENGTH
FarLon ==
  SrcFloat("X_FIRST") + SrcFloat("X_STEP") * SrcInt("WIDTH")

FarLat ==
  SrcFloat("Y_FIRST") + SrcFloat("Y_STEP") * SrcInt("LENGTH")

Min(a, b) ==
  IF a <= b THEN a ELSE b

Max(a, b) ==
  IF a >= b THEN a ELSE b

(***************************************************************************)
(* C5, as claimed: read back, scene_footprint is the closed ring of the    *)
(* reference corners 1, 3, 4, 2, 1 and data_footprint, for every set of    *)
(* geocoding anchors, is the closed ring lower-left, lower-right,          *)
(* upper-right, upper-left, lower-left of the rectangle.                   *)
(***************************************************************************)
C5_FootprintRings ==
  Translated =>
    /\ SceneRingOk
    /\ Geocoded =>
         LET text == unavco_meta_dict[K("data_footprint")].str
             w == Min(West, FarLon)
             e == Max(West, FarLon)
             so == Min(North, FarLat)
             n == Max(North, FarLat)
         IN  /\ IsPolygon(text)
             /\ Points(text) = << <<w, so>>, <<e, so>>, <<e, n>>, <<w, n>>, <<w, so>> >>

(***************************************************************************)
(* C5, amended: read back, scene_footprint is the closed ring of the       *)
(* reference corners 1, 3, 4, 2, 1 and data_footprint is the closed ring   *)
(* (X_FIRST, Y_FIRST), (lon1, Y_FIRST), (lon1, lat1), (X_FIRST, lat1),     *)
(* (X_FIRST, Y_FIRST) with lon1 = X_FIRST + X_STEP*WIDTH and               *)
(* lat1 = Y_FIRST + Y_STEP*LENGTH: it starts at the grid's first pixel,    *)
(* which is the lower-left corner only when both steps are positive.       *)
(***************************************************************************)
C5_FootprintRingsFromOrigin ==
  Translated =>
    /\ SceneRingOk
    /\ Geocoded =>
         LET text == unavco_meta_dict[K("data_footprint")].str
         IN  /\ IsPolygon(text)
             /\ Points(text) = << <<West, North>>, <<FarLon, North>>,
                                  <<FarLon, FarLat>>, <<West, FarLat>>,
                                  <<West, North>> >>
    /\ NotGeocoded => ~Has(unavco_meta_dict, K("data_footprint"))

\* a north-up grid: the ring starts at the upper-left corner
C5_Witness ==
  /\ Translated /\ Geocoded
  /\ SrcFloat("Y_STEP") * SrcInt("LENGTH") < 0
  /\ SrcFloat("X_STEP") * SrcInt("WIDTH") > 0
  /\ Points(unavco_meta_dict[K("data_footprint")].str)[1] = <<West, North>>
  /\ Points(unavco_meta_dict[K("data_footprint")].str)[3] = <<FarLon, FarLat>>

(***************************************************************************)
(* C6: for every metadata a successful translation produces, one whose     *)
(* mission is None included, get_output_filename without update and subset *)
(* mode returns a name and does not raise.                                 *)
(***************************************************************************)
C6_NameReturned ==
  (/\ Translated
   /\ pc \notin {"start", "translated"}
   /\ ~update /\ ~subset
   /\ IsNone(meta_dict[K("mission")]))
    => Named

(***************************************************************************)
(* C7, as claimed: a source map without relative_orbit under its own key   *)
(* and under unavco.relative_orbit and hdfEos5.relative_orbit, or without  *)
(* the key beam_mode, or without the key ANTENNA_SIDE, ends the            *)
(* translation in an error, and no metadata is returned.                   *)
(***************************************************************************)
TranslationFailed ==
  /\ pc = "failed"
  /\ log = <<"translate">>
  /\ err # "none"
  /\ unavco_meta_dict = EmptyDict
  /\ meta_dict = EmptyDict

C7_RequiredNeverDefaulted ==
  (/\ pc # "start"
   /\ \/ /\ ~SrcHas(K("relative_orbit"))
         /\ ~SrcHas(<<"unavco", "relative_orbit">>)
         /\ ~SrcHas(<<"hdfEos5", "relative_orbit">>)
      \/ ~SrcHas(K("beam_mode"))
      \/ ~SrcHas(K("ANTENNA_SIDE")))
    => TranslationFailed

(***************************************************************************)
(* C7, amended: a source map in which relative_orbit, beam_mode or         *)
(* ANTENNA_SIDE is absent under its own key and under every alias key (a   *)
(* key in which the name is all that follows the first `unavco.` or the    *)
(* first `hdfEos5.`) ends the translation in an error, and no metadata is  *)
(* returned.                                                               *)
(***************************************************************************)
\* the key gives the name: it is the name, or the name follows its first marker
Gives(key, name) ==
  \/ key = <<name>>
  \/ /\ Len(key) >= 2
     /\ key[Len(key)] = name
     /\ key[Len(key) - 1] \in {"unavco", "hdfEos5"}
     /\ \A j \in 1..(Len(key) - 2) : key[j] # key[Len(key) - 1]

Given(name) ==
  \E i \in 1..Len(src) : Gives(src[i].key, name)

C7_RequiredNeverDefaultedUnderAnyKey ==
  (pc # "start" /\ \E name \in RequiredNames : ~Given(name))
    => TranslationFailed

\* no key gives relative_orbit, the other names are there
C7_Witness ==
  /\ TranslationFailed
  /\ err = "KeyError"
  /\ ~Given("relative_orbit")
  /\ Given("beam_mode") /\ Given("ANTENNA_SIDE")

(***************************************************************************)
(* C8: a source map with the required inputs (beam_mode, relative_orbit,   *)
(* ANTENNA_SIDE, the four corners, a date list that is not empty) is       *)
(* translated whatever the presence or value of the best-effort            *)
(* attributes: a missing or not coercible one is defaulted (beam_swath 0,  *)
(* processing_type LOS_TIMESERIES, frame 0, post_processing_method PYSAR)  *)
(* or left out.                                                            *)
(***************************************************************************)
RequiredCarried ==
  /\ \A name \in RequiredNames : SrcHas(K(name))
  /\ IntTextOk(SrcText(K("relative_orbit")))
  /\ \A i \in 1..Len(CornerKeys) : SrcHas(K(CornerKeys[i]))
  /\ dateList # <<>>
  /\ CompactDateOk(dateList[1]) /\ CompactDateOk(dateList[Len(dateList)])
  /\ \A i \in 1..Len(src) : ~HasMarker(src[i].key, "unavco")
                              /\ ~HasMarker(src[i].key, "hdfEos5")
  /\ Geocoded \/ NotGeocoded

\* the value of a best-effort attribute that int() takes, else the default
IntOrDefault(name, default) ==
  IF SrcHas(K(name)) /\ IntTextOk(SrcText(K(name)))
  THEN VInt(IntTextVal(SrcText(K(name)))) ELSE VInt(default)

TextOrDefault(name, default) ==
  IF SrcHas(K(name)) THEN VStr(SrcText(K(name))) ELSE VStr(default)

C8_BestEffortNeverAborts ==
  (pc # "start" /\ RequiredCarried) =>
    /\ Translated
    /\ unavco_meta_dict[K("beam_swath")] = IntOrDefault("beam_swath", 0)
    /\ unavco_meta_dict[K("processing_type")]
         = TextOrDefault("processing_type",
             <<"L","O","S","_","T","I","M","E","S","E","R","I","E","S">>)
    /\ unavco_meta_dict[K("post_processing_method")]
         = TextOrDefault("post_processing_method", <<"P","Y","S","A","R">>)
    /\ unavco_meta_dict[K("frame")]
         = IF SrcHas(K("frame")) /\ IntTextOk(SrcText(K("frame")))
           THEN VInt(IntTextVal(SrcText(K("frame"))))
           ELSE IntOrDefault("first_frame", 0)

(***************************************************************************)
(* The datasets of a container that write2hdf5 has closed.                 *)
(***************************************************************************)
Datasets ==
  DOMAIN f.dsets

ExpectedDatasets ==
  { <<ObservationGroup, n>> : n \in {"displacement", "date", "bperp"} }
    \cup { <<QualityGroup, n>> : n \in {"temporalCoherence", "mask"} }
    \cup { <<GeometryGroup, layers[i]>> : i \in 1..Len(layers) }

FourNames ==
  { "Title", "MissingValue", "_FillValue", "Units" }

HasFour(x) ==
  /\ DOMAIN f.dsets[x] = FourNames
  /\ f.dsets[x]["Title"] = VName(x[2])
  /\ f.dsets[x]["MissingValue"] = f.dsets[x]["_FillValue"]

\* the table of the geometry layers: the units, "" outside the table
TableUnits(layer) ==
  IF layer \in {"height", "slantRangeDistance", "bperp"} THEN "meters"
  ELSE IF layer \in {"incidenceAngle", "headingAngle", "latitude", "longitude"}
  THEN "degrees"
  ELSE IF layer \in {"rangeCoord", "azimuthCoord", "waterMask", "shadowMask"}
  THEN "1"
  ELSE ""

RootCarriesMetadata ==
  /\ DOMAIN meta_dict \subseteq DOMAIN f.attrs
  /\ \A k \in DOMAIN meta_dict : f.attrs[k] = meta_dict[k]

(***************************************************************************)
(* C9, as claimed: after a successful write2hdf5 every dataset of the      *)
(* container carries Title, MissingValue, _FillValue and Units, with       *)
(* MissingValue equal to _FillValue, and the root carries every key/value  *)
(* pair of the archive metadata.                                           *)
(***************************************************************************)
C9_EveryDatasetFourAttributes ==
  pc = "done" =>
    /\ Datasets = ExpectedDatasets
    /\ \A x \in Datasets : HasFour(x)
    /\ RootCarriesMetadata

(***************************************************************************)
(* C9, amended: after a successful write2hdf5, displacement,               *)
(* temporalCoherence, mask and every geometry layer of the lookup table    *)
(* carry Title, MissingValue, _FillValue and Units, with MissingValue      *)
(* equal to _FillValue; date and bperp carry no attribute and a geometry   *)
(* layer outside the table carries only Title; the root carries every      *)
(* key/value pair of the archive metadata.                                 *)
(***************************************************************************)
C9_DatasetAttributesByTable ==
  pc = "done" =>
    /\ Datasets = ExpectedDatasets
    /\ \A n \in {"displacement", "date", "bperp"} :
         IF n = "displacement"
         THEN HasFour(<<ObservationGroup, n>>)
                /\ f.dsets[<<ObservationGroup, n>>]["Units"] = VName("meters")
         ELSE DOMAIN f.dsets[<<ObservationGroup, n>>] = {}
    /\ \A n \in {"temporalCoherence", "mask"} :
         HasFour(<<QualityGroup, n>>)
           /\ f.dsets[<<QualityGroup, n>>]["Units"] = VName("1")
    /\ \A i \in 1..Len(layers) :
         LET x == <<GeometryGroup, layers[i]>>
         IN  IF TableUnits(layers[i]) = ""
             THEN DOMAIN f.dsets[x] = {"Title"}
                    /\ f.dsets[x]["Title"] = VName(layers[i])
             ELSE HasFour(x) /\ f.dsets[x]["Units"] = VName(TableUnits(layers[i]))
    /\ RootCarriesMetadata

\* a closed container with a layer of the table and a layer outside it
C9_Witness ==
  /\ pc = "done"
  /\ layers = <<"waterMask", "azimuthAngle">>
  /\ f.dsets[<<GeometryGroup, "waterMask">>]["_FillValue"] = BOOL_ZERO
  /\ DOMAIN f.dsets[<<GeometryGroup, "azimuthAngle">>] = {"Title"}
  /\ f.attrs[K("FILE_TYPE")] = VStr(<<"H","D","F","E","O","S">>)

(***************************************************************************)
(* C10: in every run of main the stages happen at most once and in the     *)
(* order translation, file name, creation of the container, observation    *)
(* group, quality group, geometry group, root attributes, close.  The file *)
(* at the output path is replaced only once translation and file name      *)
(* have both returned; a failure at a dataset write leaves the container   *)
(* with the datasets written before it, without root attributes, open.     *)
(***************************************************************************)
StageOrder ==
  << "translate", "name", "create", "observation", "quality", "geometry",
     "attributes", "close" >>

StagesInOrder ==
  \E n \in 0..Len(StageOrder) : log = SubSeq(StageOrder, 1, n)

WriteFailedLeavesOpen ==
  (pc = "failed" /\ err = "IOError") =>
    /\ disk = "container"
    /\ f.open
    /\ f.attrs = EmptyDict
    /\ Datasets \subseteq ExpectedDatasets

ReplacedAfterNaming ==
  disk' # disk =>
    /\ log = <<"translate", "name">>
    /\ err = "none"
    /\ meta_dict # EmptyDict
    /\ outName # <<>>
    /\ disk' = "container"

\* the step that fails leaves the container and the file as they were
FailureLeavesContainer ==
  pc' = "failed" => (f' = f /\ disk' = disk)

C10_StagesOfMain ==
  /\ [](StagesInOrder /\ WriteFailedLeavesOpen)
  /\ [][ReplacedAfterNaming /\ FailureLeavesContainer]_vars

\* the mask could not be read: an old file is gone, four datasets are written
C10_Witness ==
  /\ pc = "failed" /\ err = "IOError"
  /\ log = <<"translate", "name", "create", "observation", "quality">>
  /\ disk = "container"
  /\ Cardinality(Datasets) = 4
  /\ f.open /\ f.attrs = EmptyDict

(***************************************************************************)
(* C11: along prep_metadata and get_output_filename, the first frame token *)
(* of the name returned is the frame attribute of the final metadata, the  *)
(* one written to the container root, in 4 zero-padded digits, also when   *)
(* the source carries frame and first_frame with different values.         *)
(***************************************************************************)
C11_FrameTokenIsFrameAttribute ==
  Named =>
    /\ Len(NameTokens) >= 4
    /\ IsPadded(NameTokens[4], 4, meta_dict[K("frame")].int)

=============================================================================
